---------------------------- MODULE Spec2Model ----------------------------
(***************************************************************************)
(* Model of the Huffman compressor/decompressor of src/main.cpp.           *)
(*                                                                         *)
(* Bytes are integers 0..255.  A std::string is a sequence of bytes; the   *)
(* '0'/'1' characters of codewords and of the encoded string are the bytes *)
(* 48 and 49, as in the program.  A TreeNode* is <<>> (nullptr) or <<n>>   *)
(* with n a record of the TreeNode fields.  An unordered_map is a function *)
(* from its keys; its iteration order is not fixed by the language, so     *)
(* every order is a possible outcome.  std::priority_queue::top() returns  *)
(* some element that no other element precedes under CompareNodes: any     *)
(* node of minimal frequency.                                              *)
(***************************************************************************)
EXTENDS Integers, Sequences, FiniteSets, TLC

VARIABLES
    pc,                \* position in main / BuildHuffmanTree / DecodeFile
    inputText,         \* the input file's bytes (BuildHuffmanTree parameter)
    charFrequencyMap,  \* BuildHuffmanTree local
    priorityQueue,     \* the set of TreeNode records in the queue
    huffmanCodeMap,    \* BuildHuffmanTree local: symbol -> codeword
    codeFile,          \* content of <output>.huff
    encodedString,     \* BuildHuffmanTree local: the '0'/'1' string
    binFile,           \* content of the packed output file
    huffmanCodes,      \* DecodeFile local: set of [code, ch] entries, one per code
    unpackedString,    \* DecodeBinaryFile local encodedString
    pos,               \* Decode: number of bits consumed by the range-for
    temp,              \* Decode local
    outputFile,        \* decompressed output file's bytes
    exitStatus,        \* <<>> while main runs, <<r>> once main returned r
    runs               \* number of times main was started with action "c"

vars == <<pc, inputText, charFrequencyMap, priorityQueue, huffmanCodeMap,
          codeFile, encodedString, binFile, huffmanCodes, unpackedString,
          pos, temp, outputFile, exitStatus, runs>>

----------------------------------------------------------------------------
(* Byte values of the character literals of the program. *)
NL == 10
COLON == 58
BSLASH == 92
LETTER_n == 110
CHAR0 == 48
CHAR1 == 49
DOLLAR == 36
NUL == 0
\* std::string::npos is size_t(-1); npos + 1 wraps around to 0.
npos == -1

(* Bounds of the model. *)
MaxLen == 3
MaxBits == 3
MaxCodeLen == 2
MaxPackBits == 9
MaxFileLen == 4
MaxRerunLen == 2
MaxRuns == 2

InputAlphabet == {NL, COLON, BSLASH, 97}
DecodeSymbols == {NL, 97, 98}
FileAlphabet == {NL, COLON, BSLASH, LETTER_n, CHAR0, 97}
PackedBytes == {0, 5, 160, 255}

----------------------------------------------------------------------------
(* Generic helpers. *)
SeqsUpTo(S, n) == UNION {[1..k -> S] : k \in 0..n}

Min2(a, b) == IF a < b THEN a ELSE b

RECURSIVE Pow2(_)
Pow2(k) == IF k = 0 THEN 1 ELSE 2 * Pow2(k - 1)

IsPrefix(p, s) == Len(p) <= Len(s) /\ SubSeq(s, 1, Len(p)) = p

Perms(S) == {f \in [1..Cardinality(S) -> S] : \A i, j \in DOMAIN f : i # j => f[i] # f[j]}

----------------------------------------------------------------------------
(* BuildHuffmanTree: frequency count, lines 80-84. *)

\* charFrequencyMap[ch]++ : operator[] inserts 0 for a missing key.
Increment(map, ch) ==
    IF ch \in DOMAIN map THEN [map EXCEPT ![ch] = @ + 1] ELSE map @@ (ch :> 1)

RECURSIVE CountChars(_, _)
CountChars(text, map) ==
    IF text = <<>> THEN map ELSE CountChars(Tail(text), Increment(map, Head(text)))

CountFrequencies ==
    /\ pc = "count"
    /\ charFrequencyMap' = Increment(CountChars(inputText, <<>>), NL)
    /\ pc' = "seed"
    /\ UNCHANGED <<inputText, priorityQueue, huffmanCodeMap, codeFile, encodedString,
                   binFile, huffmanCodes, unpackedString, pos, temp, outputFile,
                   exitStatus, runs>>

(* TreeNode constructor, lines 25-27. *)
TreeNode(character, frequency) ==
    [character |-> character, frequency |-> frequency, left |-> <<>>, right |-> <<>>]

(* Lines 86-87: one leaf per entry of the frequency map. *)
SeedQueue ==
    /\ pc = "seed"
    /\ priorityQueue' = {TreeNode(ch, charFrequencyMap[ch]) : ch \in DOMAIN charFrequencyMap}
    /\ pc' = "merge"
    /\ UNCHANGED <<inputText, charFrequencyMap, huffmanCodeMap, codeFile, encodedString,
                   binFile, huffmanCodes, unpackedString, pos, temp, outputFile,
                   exitStatus, runs>>

(* CompareNodes, lines 35-41: true when left goes below right in the heap. *)
CompareNodes(left, right) == left.frequency > right.frequency

\* priority_queue::top(): an element that CompareNodes puts below no other one.
Tops(queue) == {n \in queue : \A m \in queue : ~CompareNodes(n, m)}

(* Lines 93-95. *)
ParentNode(leftNode, rightNode) ==
    [character |-> DOLLAR, frequency |-> leftNode.frequency + rightNode.frequency,
     left |-> <<leftNode>>, right |-> <<rightNode>>]

(* One iteration of the merge loop, lines 89-97. *)
MergeStep ==
    /\ pc = "merge"
    /\ Cardinality(priorityQueue) # 1
    /\ \E leftNode \in Tops(priorityQueue) :
         \E rightNode \in Tops(priorityQueue \ {leftNode}) :
            priorityQueue' =
                (priorityQueue \ {leftNode, rightNode}) \cup {ParentNode(leftNode, rightNode)}
    /\ UNCHANGED <<pc, inputText, charFrequencyMap, huffmanCodeMap, codeFile, encodedString,
                   binFile, huffmanCodes, unpackedString, pos, temp, outputFile,
                   exitStatus, runs>>

\* huffmanCodes[key] = value on an unordered_map<char, string>.
Put(map, key, value) ==
    IF key \in DOMAIN map THEN [map EXCEPT ![key] = value] ELSE map @@ (key :> value)

RECURSIVE GenerateHuffmanCodesMutRight0(_, _, _)
GenerateHuffmanCodesMutRight0(root, str, codes) ==
    IF root = <<>> THEN codes
    ELSE LET node == root[1]
             m1 == IF node.left = <<>> /\ node.right = <<>>
                   THEN Put(codes, node.character, str) ELSE codes
             m2 == GenerateHuffmanCodesMutRight0(node.left, Append(str, CHAR0), m1)
         IN  GenerateHuffmanCodesMutRight0(node.right, Append(str, CHAR0), m2)

(* GenerateHuffmanCodes, lines 47-57; returns the map after the call. *)
RECURSIVE GenerateHuffmanCodes(_, _, _)
GenerateHuffmanCodes(root, str, codes) ==
    IF root = <<>> THEN codes
    ELSE LET node == root[1]
             m1 == IF node.left = <<>> /\ node.right = <<>>
                   THEN Put(codes, node.character, str) ELSE codes
             m2 == GenerateHuffmanCodes(node.left, Append(str, CHAR0), m1)
         IN  GenerateHuffmanCodes(node.right, Append(str, CHAR1), m2)

(* Loop exit and lines 99-100. *)
GenerateCodes ==
    /\ pc = "merge"
    /\ Cardinality(priorityQueue) = 1
    /\ \E root \in Tops(priorityQueue) :
          huffmanCodeMap' = GenerateHuffmanCodes(<<root>>, <<>>, <<>>)
    /\ pc' = "writeCodes"
    /\ UNCHANGED <<inputText, charFrequencyMap, priorityQueue, codeFile, encodedString,
                   binFile, huffmanCodes, unpackedString, pos, temp, outputFile,
                   exitStatus, runs>>

(* Lines 102-110: one record per entry, in the map's iteration order. *)
CodeFileLine(ch, code) ==
    IF ch = NL THEN <<BSLASH, LETTER_n>> \o <<COLON>> \o code \o <<NL>>
    ELSE <<ch>> \o <<COLON>> \o code \o <<NL>>

RECURSIVE CodeFileText(_, _)
CodeFileText(order, map) ==
    IF order = <<>> THEN <<>>
    ELSE CodeFileLine(Head(order), map[Head(order)]) \o CodeFileText(Tail(order), map)

WriteCodeFile ==
    /\ pc = "writeCodes"
    /\ \E order \in Perms(DOMAIN huffmanCodeMap) :
          codeFile' = CodeFileText(order, huffmanCodeMap)
    /\ pc' = "encode"
    /\ UNCHANGED <<inputText, charFrequencyMap, priorityQueue, huffmanCodeMap, encodedString,
                   binFile, huffmanCodes, unpackedString, pos, temp, outputFile,
                   exitStatus, runs>>

(* Line 113: the codewords of the input's characters, concatenated. *)
RECURSIVE EncodeText(_, _)
EncodeText(text, map) ==
    IF text = <<>> THEN <<>> ELSE map[Head(text)] \o EncodeText(Tail(text), map)

\* bitset<8> from a string of at most 8 '0'/'1' characters: the last character
\* is bit 0, so a shorter string fills the low bits.
RECURSIVE BitsetFromString(_)
BitsetFromString(chars) ==
    IF chars = <<>> THEN 0
    ELSE 2 * BitsetFromString(SubSeq(chars, 1, Len(chars) - 1)) + (chars[Len(chars)] - CHAR0)

(* The loop of WriteEncodedStringToFile, lines 66-70, entered with good() true and *)
(* `read` characters consumed.  operator>> stores at most 8 characters; it sets    *)
(* eofbit only when it meets the end of the string, and when it can store no       *)
(* character it sets failbit and leaves `bits` as it was.  The byte is written     *)
(* in every iteration.                                                             *)
RECURSIVE WriteLoop(_, _, _, _)
WriteLoop(str, read, bits, out) ==
    LET remaining == Len(str) - read
    IN  IF remaining = 0 THEN Append(out, bits)
        ELSE IF remaining < 8
             THEN Append(out, BitsetFromString(SubSeq(str, read + 1, Len(str))))
             ELSE LET b == BitsetFromString(SubSeq(str, read + 1, read + 8))
                  IN  WriteLoop(str, read + 8, b, Append(out, b))

(* WriteEncodedStringToFile, lines 62-72: the bytes written. *)
WriteEncodedStringToFile(str) == WriteLoop(str, 0, 0, <<>>)

(* Lines 112-115, and main's return after compressing. *)
EncodeAndWrite ==
    /\ pc = "encode"
    /\ encodedString' = EncodeText(inputText, huffmanCodeMap)
    /\ binFile' = WriteEncodedStringToFile(encodedString')
    /\ pc' = "idle"
    /\ exitStatus' = <<0>>
    /\ UNCHANGED <<inputText, charFrequencyMap, priorityQueue, huffmanCodeMap, codeFile,
                   huffmanCodes, unpackedString, pos, temp, outputFile, runs>>

----------------------------------------------------------------------------
(* DecodeFile: the reader of the code file, lines 169-184. *)

\* std::getline: the characters up to the next '\n'; a last line without one
\* is returned too, and nothing is returned at the end of the file.
RECURSIVE IndexOf(_, _, _)
IndexOf(s, ch, from) ==
    IF from > Len(s) THEN 0 ELSE IF s[from] = ch THEN from ELSE IndexOf(s, ch, from + 1)

RECURSIVE GetLines(_)
GetLines(text) ==
    IF text = <<>> THEN <<>>
    ELSE LET i == IndexOf(text, NL, 1)
         IN  IF i = 0 THEN <<text>>
             ELSE <<SubSeq(text, 1, i - 1)>> \o GetLines(SubSeq(text, i + 1, Len(text)))

\* string::find(ch): the 0-based index of the first ch, or npos.
Find(s, ch) == IF IndexOf(s, ch, 1) = 0 THEN npos ELSE IndexOf(s, ch, 1) - 1

\* string::substr(start, count), start <= size; count npos takes the rest.
Substr(s, start, count) ==
    LET n == IF count = npos THEN Len(s) - start ELSE Min2(count, Len(s) - start)
    IN  SubSeq(s, start + 1, start + n)

\* huffmanCodes[code] = ch on an unordered_map<string, char>.
PutCode(entries, code, ch) ==
    {e \in entries : e.code # code} \cup {[code |-> code, ch |-> ch]}

(* Lines 173-182 for one line. *)
ParseLine(entries, line) ==
    IF line = <<>> THEN entries
    ELSE LET symbol == Substr(line, 0, Find(line, COLON))
             code == Substr(line, Find(line, COLON) + 1, npos)
         IN  IF symbol = <<BSLASH, LETTER_n>> THEN PutCode(entries, code, NL)
             ELSE PutCode(entries, code, IF symbol = <<>> THEN NUL ELSE symbol[1])

RECURSIVE ParseLines(_, _)
ParseLines(entries, lines) ==
    IF lines = <<>> THEN entries
    ELSE ParseLines(ParseLine(entries, Head(lines)), Tail(lines))

(* main with action "d" up to line 184. *)
ParseCodeFile ==
    /\ pc = "idle"
    /\ huffmanCodes' = ParseLines({}, GetLines(codeFile))
    /\ exitStatus' = <<>>
    /\ outputFile' = <<>>
    /\ pc' = "unpack"
    /\ UNCHANGED <<inputText, charFrequencyMap, priorityQueue, huffmanCodeMap, codeFile,
                   encodedString, binFile, unpackedString, pos, temp, runs>>

\* bitset<8>(byte).to_string(): 8 characters, most significant bit first.
BitsetToString(byte) == [j \in 1..8 |-> CHAR0 + ((byte \div Pow2(8 - j)) % 2)]

RECURSIVE UnpackBytes(_)
UnpackBytes(bytes) ==
    IF bytes = <<>> THEN <<>> ELSE BitsetToString(Head(bytes)) \o UnpackBytes(Tail(bytes))

(* DecodeBinaryFile, lines 149-160, and the entry of Decode, line 134. *)
UnpackBinaryFile ==
    /\ pc = "unpack"
    /\ unpackedString' = UnpackBytes(binFile)
    /\ temp' = <<>>
    /\ pos' = 0
    /\ pc' = "decode"
    /\ UNCHANGED <<inputText, charFrequencyMap, priorityQueue, huffmanCodeMap, codeFile,
                   encodedString, binFile, huffmanCodes, outputFile, exitStatus, runs>>

\* huffmanCodes.find(t) != end(), and huffmanCodes.at(t).
HasCode(entries, t) == \E e \in entries : e.code = t
CodeAt(entries, t) == (CHOOSE e \in entries : e.code = t).ch

DecodeBitMutNoReset(entries, t, out, bit) ==
    LET t2 == Append(t, bit)
    IN  IF HasCode(entries, t2)
        THEN [temp |-> t2, out |-> Append(out, CodeAt(entries, t2))]
        ELSE [temp |-> t2, out |-> out]

(* The body of Decode's loop, lines 136-140. *)
DecodeBit(entries, t, out, bit) ==
    LET t2 == Append(t, bit)
    IN  IF HasCode(entries, t2)
        THEN [temp |-> <<>>, out |-> Append(out, CodeAt(entries, t2))]
        ELSE [temp |-> t2, out |-> out]

DecodeStep ==
    /\ pc = "decode"
    /\ pos < Len(unpackedString)
    /\ LET r == DecodeBit(huffmanCodes, temp, outputFile, unpackedString[pos + 1])
       IN  /\ temp' = r.temp
           /\ outputFile' = r.out
    /\ pos' = pos + 1
    /\ UNCHANGED <<pc, inputText, charFrequencyMap, priorityQueue, huffmanCodeMap, codeFile,
                   encodedString, binFile, huffmanCodes, unpackedString, exitStatus, runs>>

(* The end of Decode's loop, lines 161, 187-188, and main's return, line 252. *)
DecodeFinish ==
    /\ pc = "decode"
    /\ pos = Len(unpackedString)
    /\ pc' = "done"
    /\ exitStatus' = <<0>>
    /\ UNCHANGED <<inputText, charFrequencyMap, priorityQueue, huffmanCodeMap, codeFile,
                   encodedString, binFile, huffmanCodes, unpackedString, pos, temp,
                   outputFile, runs>>

----------------------------------------------------------------------------
(* Compression of an input file followed by decompression of its output. *)
Init ==
    /\ pc = "count"
    /\ inputText \in SeqsUpTo(InputAlphabet, MaxLen)
    /\ charFrequencyMap = <<>>
    /\ priorityQueue = {}
    /\ huffmanCodeMap = <<>>
    /\ codeFile = <<>>
    /\ encodedString = <<>>
    /\ binFile = <<>>
    /\ huffmanCodes = {}
    /\ unpackedString = <<>>
    /\ pos = 0
    /\ temp = <<>>
    /\ outputFile = <<>>
    /\ exitStatus = <<>>
    /\ runs = 1

Next ==
    \/ CountFrequencies
    \/ SeedQueue
    \/ MergeStep
    \/ GenerateCodes
    \/ WriteCodeFile
    \/ EncodeAndWrite
    \/ ParseCodeFile
    \/ UnpackBinaryFile
    \/ DecodeStep
    \/ DecodeFinish

Spec == Init /\ [][Next]_vars

----------------------------------------------------------------------------
(* Compression of a text over two symbols, long enough for the encoded string *)
(* to fill whole bytes, followed by decompression.                            *)
InitPack ==
    /\ pc = "count"
    /\ inputText \in SeqsUpTo({NL, 97}, MaxPackBits)
    /\ charFrequencyMap = <<>>
    /\ priorityQueue = {}
    /\ huffmanCodeMap = <<>>
    /\ codeFile = <<>>
    /\ encodedString = <<>>
    /\ binFile = <<>>
    /\ huffmanCodes = {}
    /\ unpackedString = <<>>
    /\ pos = 0
    /\ temp = <<>>
    /\ outputFile = <<>>
    /\ exitStatus = <<>>
    /\ runs = 1

SpecPack == InitPack /\ [][Next]_vars

----------------------------------------------------------------------------
(* Decode on any bit string and any inverse code table (one codeword per symbol). *)
Codewords == SeqsUpTo({CHAR0, CHAR1}, MaxCodeLen)

CodeTables ==
    UNION {{t \in [D -> Codewords] : \A a, b \in D : a # b => t[a] # t[b]} :
           D \in SUBSET DecodeSymbols}

InverseTable(t) == {[code |-> t[s], ch |-> s] : s \in DOMAIN t}

InitDecode ==
    /\ pc = "decode"
    /\ huffmanCodes \in {InverseTable(t) : t \in CodeTables}
    /\ unpackedString \in SeqsUpTo({CHAR0, CHAR1}, MaxBits)
    /\ pos = 0
    /\ temp = <<>>
    /\ outputFile = <<>>
    /\ inputText = <<>>
    /\ charFrequencyMap = <<>>
    /\ priorityQueue = {}
    /\ huffmanCodeMap = <<>>
    /\ codeFile = <<>>
    /\ encodedString = <<>>
    /\ binFile = <<>>
    /\ exitStatus = <<>>
    /\ runs = 0

NextDecode == DecodeStep \/ DecodeFinish

SpecDecode == InitDecode /\ [][NextDecode]_vars

----------------------------------------------------------------------------
(* main with action "d" on any code file and packed file found on disk. *)
InitDecodeFile ==
    /\ pc = "idle"
    /\ codeFile \in SeqsUpTo(FileAlphabet, MaxFileLen)
    /\ binFile \in SeqsUpTo(PackedBytes, 1)
    /\ inputText = <<>>
    /\ charFrequencyMap = <<>>
    /\ priorityQueue = {}
    /\ huffmanCodeMap = <<>>
    /\ encodedString = <<>>
    /\ huffmanCodes = {}
    /\ unpackedString = <<>>
    /\ pos = 0
    /\ temp = <<>>
    /\ outputFile = <<>>
    /\ exitStatus = <<>>
    /\ runs = 0

NextDecodeFile == ParseCodeFile \/ UnpackBinaryFile \/ DecodeStep \/ DecodeFinish

SpecDecodeFile == InitDecodeFile /\ [][NextDecodeFile]_vars

----------------------------------------------------------------------------
(* main with action "c" started again on the same input: a new process, the *)
(* files of the earlier run still on disk until they are rewritten.          *)
CompressAgain ==
    /\ pc = "idle"
    /\ runs < MaxRuns
    /\ runs' = runs + 1
    /\ pc' = "count"
    /\ charFrequencyMap' = <<>>
    /\ priorityQueue' = {}
    /\ huffmanCodeMap' = <<>>
    /\ encodedString' = <<>>
    /\ exitStatus' = <<>>
    /\ UNCHANGED <<inputText, codeFile, binFile, huffmanCodes, unpackedString, pos, temp,
                   outputFile>>

InitRerun ==
    /\ pc = "count"
    /\ inputText \in SeqsUpTo(InputAlphabet, MaxRerunLen)
    /\ charFrequencyMap = <<>>
    /\ priorityQueue = {}
    /\ huffmanCodeMap = <<>>
    /\ codeFile = <<>>
    /\ encodedString = <<>>
    /\ binFile = <<>>
    /\ huffmanCodes = {}
    /\ unpackedString = <<>>
    /\ pos = 0
    /\ temp = <<>>
    /\ outputFile = <<>>
    /\ exitStatus = <<>>
    /\ runs = 1

NextRerun ==
    \/ CountFrequencies
    \/ SeedQueue
    \/ MergeStep
    \/ GenerateCodes
    \/ WriteCodeFile
    \/ EncodeAndWrite
    \/ CompressAgain

SpecRerun == InitRerun /\ [][NextRerun]_vars

----------------------------------------------------------------------------
(* Vocabulary of the properties. *)
Range(f) == {f[x] : x \in DOMAIN f}

CodesGenerated == pc \notin {"count", "seed", "merge"}

CodeFileParsed == pc \in {"unpack", "decode", "done"}

RECURSIVE SumOver(_, _)
SumOver(S, f) ==
    IF S = {} THEN 0 ELSE LET x == CHOOSE y \in S : TRUE IN f[x] + SumOver(S \ {x}, f)

\* Sum over the symbols of frequency times codeword length.
WeightedPathLength(freq, lens) == SumOver(DOMAIN freq, [s \in DOMAIN freq |-> freq[s] * lens[s]])

\* Kraft's inequality: the lengths a binary prefix-free code can have.
KraftHolds(lens) ==
    LET K == Cardinality(DOMAIN lens)
    IN  SumOver(DOMAIN lens, [s \in DOMAIN lens |-> Pow2(K - lens[s])]) <= Pow2(K)

\* The least weighted path length of a prefix-free code with non-empty codewords.
MinWeightedPathLength(freq) ==
    LET D == DOMAIN freq
        feasible == {WeightedPathLength(freq, l) :
                        l \in {m \in [D -> 1..Cardinality(D)] : KraftHolds(m)}}
    IN  CHOOSE w \in feasible : \A v \in feasible : w <= v

CodeLengths(map) == [s \in DOMAIN map |-> Len(map[s])]

\* The packed stream as the format describes it: 8 bits per byte, most significant
\* bit first, the last byte padded with zero bits at its low end.
BitAt(str, k) == IF k <= Len(str) THEN str[k] - CHAR0 ELSE 0

PackedByteMSBFirst(str, i) ==
    SumOver(0..7, [j \in 0..7 |-> BitAt(str, 8 * i + j + 1) * Pow2(7 - j)])

PackedMSBFirst(str) == [i \in 1..((Len(str) + 7) \div 8) |-> PackedByteMSBFirst(str, i - 1)]

ZeroChars(k) == [i \in 1..k |-> CHAR0]

\* A non-empty line of the code file without the ':' separator.
MalformedLines(text) == {l \in Range(GetLines(text)) : l # <<>> /\ COLON \notin Range(l)}

\* The codeword an inverse table gives a symbol, and the encoding of a symbol sequence.
CodewordOf(entries, s) == (CHOOSE e \in entries : e.ch = s).code

RECURSIVE EncodeWith(_, _)
EncodeWith(entries, syms) ==
    IF syms = <<>> THEN <<>>
    ELSE CodewordOf(entries, Head(syms)) \o EncodeWith(entries, Tail(syms))

PrefixFreeTable(entries) ==
    /\ \A e \in entries : e.code # <<>>
    /\ \A e, f \in entries : e # f => ~IsPrefix(e.code, f.code)

----------------------------------------------------------------------------
(* C1: decompressing the two artifacts of a compression yields the input text. *)
C1_RoundTrip == pc = "done" => outputFile = inputText

(* C2: the packed file holds ceil(n/8) bytes, bit j of byte i being bit 8i+j of *)
(* the encoded string or 0 past its end, and unpacking it gives the encoded     *)
(* string followed by (8 - n mod 8) mod 8 zero bits.                            *)
C2_PackingLayout ==
    /\ pc \in {"idle", "unpack", "decode", "done"} => binFile = PackedMSBFirst(encodedString)
    /\ pc \in {"decode", "done"} =>
          unpackedString = encodedString \o ZeroChars((8 - (Len(encodedString) % 8)) % 8)

(* C3: every symbol of the frequency table has a codeword of at least one bit. *)
C3_NonEmptyCodewords ==
    CodesGenerated =>
        /\ DOMAIN huffmanCodeMap = DOMAIN charFrequencyMap
        /\ \A ch \in DOMAIN charFrequencyMap : Len(huffmanCodeMap[ch]) >= 1

(* C4: no codeword of the generated table is a prefix of another symbol's codeword. *)
C4_PrefixFree ==
    CodesGenerated =>
        \A a, b \in DOMAIN huffmanCodeMap :
            a # b => ~IsPrefix(huffmanCodeMap[a], huffmanCodeMap[b])

C4_Witness ==
    /\ pc = "writeCodes"
    /\ Cardinality(DOMAIN huffmanCodeMap) >= 3
    /\ \E a, b \in DOMAIN huffmanCodeMap : Len(huffmanCodeMap[a]) < Len(huffmanCodeMap[b])

(* C5: the weighted path length of the generated table is the least one of any *)
(* binary prefix-free code with non-empty codewords, however ties were broken.  *)
C5_WeightedOptimality ==
    pc = "writeCodes" =>
        WeightedPathLength(charFrequencyMap, CodeLengths(huffmanCodeMap))
            = MinWeightedPathLength(charFrequencyMap)

(* C6: the map read back from the code file is exactly the inverse of the code table. *)
C6_CodeTableRoundTrip ==
    CodeFileParsed =>
        huffmanCodes = {[code |-> huffmanCodeMap[s], ch |-> s] : s \in DOMAIN huffmanCodeMap}

(* C7: when the bits run out with a non-empty candidate, decoding ends in a *)
(* failure outcome, not in a normal completion.                              *)
C7_UnmatchedTailFails == (pc = "done" /\ temp # <<>>) => exitStatus # <<0>>

(* C8: a code file with a non-empty line that has no ':' is rejected when it is *)
(* read: decompression does not go on, and the line yields no map entry.        *)
C8_MalformedRejected ==
    MalformedLines(codeFile) # {} =>
        /\ pc \notin {"unpack", "decode"}
        /\ pc = "done" => exitStatus # <<0>>
        /\ \A l \in MalformedLines(codeFile) : ~HasCode(huffmanCodes, l)

(* C9: a second compression of the same input, whatever the iteration order of *)
(* the maps and the choice among equal weights, rewrites both files unchanged. *)
C9_Deterministic ==
    [][/\ (runs > 1 /\ pc = "writeCodes") => codeFile' = codeFile
       /\ (runs > 1 /\ pc = "encode") => binFile' = binFile]_vars

(* C10: with a prefix-free table of non-empty codewords, the bits consumed are  *)
(* always the codewords of the emitted symbols followed by the candidate, and   *)
(* on the exact encoding of a symbol sequence Decode ends having emitted that   *)
(* sequence, with an empty candidate.                                           *)
C10_DecodeExact ==
    PrefixFreeTable(huffmanCodes) =>
        /\ SubSeq(unpackedString, 1, pos) = EncodeWith(huffmanCodes, outputFile) \o temp
        /\ pc = "done" =>
              \A syms \in SeqsUpTo({e.ch : e \in huffmanCodes}, Len(unpackedString)) :
                  unpackedString = EncodeWith(huffmanCodes, syms) =>
                      (outputFile = syms /\ temp = <<>>)

C10_Witness ==
    /\ pc = "done"
    /\ PrefixFreeTable(huffmanCodes)
    /\ Cardinality(huffmanCodes) = 3
    /\ Len(outputFile) >= 2
    /\ unpackedString = EncodeWith(huffmanCodes, outputFile)
    /\ \E i, j \in DOMAIN outputFile : outputFile[i] # outputFile[j]

=============================================================================
